---------------------------- MODULE Spec2Model ----------------------------
(***************************************************************************)
(* A model of the interface-reconciliation tools of the repository:        *)
(*                                                                         *)
(*   - IPCMapper   (src/ipc_mapper.py): the compatibility scorer and the   *)
(*                 conflict list of generate_synthesis_plan;               *)
(*   - OSSynthesizer (src/synthesizer.py): merge_headers, intelligent_merge*)
(*                 and synthesize_content.                                 *)
(*                                                                         *)
(* Each class is checked under a specification of its own (SpecMapper,     *)
(* SpecSynth); the variables of the other class stay at their initial      *)
(* value.  Four more specifications follow them:                           *)
(*                                                                         *)
(*   - SpecGuard: synthesize_content called on artifact names of any       *)
(*                spelling;                                                *)
(*   - SpecRun:   OSSynthesizer.run_synthesis step by step over source     *)
(*                trees that hold a header at several paths, with          *)
(*                HeaderFixer.run_fixes (src/fix_headers.py) writing into  *)
(*                the same merged tree;                                    *)
(*   - SpecTools: OSAnalyzer.run_ctags (src/analyze.py) and                *)
(*                IPCMapper.build_call_graph, the operations that run      *)
(*                external indexers on the source roots;                   *)
(*   - SpecAudit: BuildAuditor.run_audit (src/build_auditor.py) on merged  *)
(*                trees that miss some of what the audit looks for.        *)
(***************************************************************************)
EXTENDS Integers, Sequences, FiniteSets, TLC

VARIABLES
    interfaces,   \* IPCMapper.interfaces: system -> extracted interface entry
    result,       \* the value returned by the most recent IPCMapper call
    trees,        \* the source trees: system -> lines of its copy of the header
    merged,       \* the merged tree: output path -> text written there
    phase,        \* "setup" while the source trees are laid out, then "merged"
    guards,       \* artifact name -> the guard token synthesize_content emitted
    roots,        \* the source roots: system -> the header files find prints
    created,      \* the files the tools created under the source roots
    results,      \* OSAnalyzer.results: system -> the counts of run_ctags
    call_graphs,  \* IPCMapper.call_graphs: system -> the edges of its graph
    pc,           \* the position of run_synthesis
    similar_paths,  \* merge_headers: similar, the file_paths of intelligent_merge
    contents_read,  \* intelligent_merge: contents, as far as it is filled
    readable_roots, \* the systems whose source root exists and can be searched
    audit_tree,     \* the paths that exist below the base_path of BuildAuditor
    audit           \* BuildAuditor: self.issues and what run_audit printed and returned

mapperVars == <<interfaces, result>>

synthVars == <<trees, merged, phase>>

runVars == <<roots, pc, similar_paths, contents_read, readable_roots>>

toolVars == <<guards, created, results, call_graphs>>

auditVars == <<audit_tree, audit>>

vars == <<interfaces, result, trees, merged, phase,
          guards, roots, created, results, call_graphs,
          pc, similar_paths, contents_read, readable_roots,
          audit_tree, audit>>

(***************************************************************************)
(* Generic helpers.                                                        *)
(***************************************************************************)
Range(s) == {s[i] : i \in DOMAIN s}

\* Python's str "<": lexicographic order of the code points.
RECURSIVE LexLess(_, _)
LexLess(u, v) ==
    IF v = <<>> THEN FALSE
    ELSE IF u = <<>> THEN TRUE
    ELSE IF Head(u) < Head(v) THEN TRUE
    ELSE IF Head(u) > Head(v) THEN FALSE
    ELSE LexLess(Tail(u), Tail(v))

\* SelectSeq with the sequence's own order kept, for a predicate on elements
\* that needs the surrounding context.
RECURSIVE Filter(_, _)
Filter(s, keep) ==
    IF s = <<>> THEN <<>>
    ELSE IF Head(s) \in keep THEN <<Head(s)>> \o Filter(Tail(s), keep)
    ELSE Filter(Tail(s), keep)

(***************************************************************************)
(* IPCMapper (src/ipc_mapper.py)                                           *)
(***************************************************************************)

\* self.systems of IPCMapper.__init__: the registered sources, in dict order.
IPCMapper_systems == <<"CMU-Mach-MK83", "Lites", "Mach4-i386", "GNU-OSFMach">>

MapperSystemSet == Range(IPCMapper_systems)

\* The code points of each registered source identifier.
CodePoints(s) ==
    CASE s = "CMU-Mach-MK83" -> <<67, 77, 85, 45, 77, 97, 99, 104, 45, 77, 75, 56, 51>>
      [] s = "Lites"         -> <<76, 105, 116, 101, 115>>
      [] s = "Mach4-i386"    -> <<77, 97, 99, 104, 52, 45, 105, 51, 56, 54>>
      [] s = "GNU-OSFMach"   -> <<71, 78, 85, 45, 79, 83, 70, 77, 97, 99, 104>>

\* sys1 < sys2 on two source identifiers.
StrLess(a, b) == LexLess(CodePoints(a), CodePoints(b))

\* The function names extract_function_signatures greps for.  The code lists
\* 21 names; the model keeps four of them, enough for every overlap ratio
\* the thresholds 25 and 50 separate.
ipc_functions == {"mach_msg", "port_allocate", "task_create", "thread_create"}

\* Bound: the number of signatures one extraction finds in one source tree.
MaxSigs == 3

SigSets == {S \in SUBSET ipc_functions : Cardinality(S) <= MaxSigs}

\* An entry of self.interfaces.  The entry records whether the key
\* 'function_signatures' is set and, if so, the names it maps.  The key
\* 'mach_messages' is read by no modelled operation; setting it only makes
\* the entry exist.
NoSignatures == [has_function_signatures |-> FALSE, function_signatures |-> {}]

WithSignatures(S) == [has_function_signatures |-> TRUE, function_signatures |-> S]

\* interfaces with interfaces[system] set to entry (a defaultdict: the entry
\* is created when missing).
SetEntry(ifs, system, entry) ==
    [x \in (DOMAIN ifs) \cup {system} |-> IF x = system THEN entry ELSE ifs[x]]

\* self.interfaces[sys].get('function_signatures', {}).keys()
SignatureKeys(ifs, sys) ==
    IF ifs[sys].has_function_signatures THEN ifs[sys].function_signatures ELSE {}

\* A score: the exact value num/den of the float the code computes.  The
\* comparisons the code makes (score < 25, score < 50) and the one-decimal
\* formatting agree with the exact value for every union of at most 21 names.
Zero == [num |-> 0, den |-> 1]

ScoreLess(score, n) == score.num < n * score.den

ScoreIs(score, n) == score.num = n * score.den

\* Mutant of Ratio: an integer division, intersection // union * 100.
Ratio_floordiv(intersection, union) ==
    IF union > 0 THEN [num |-> (intersection \div union) * 100, den |-> 1] ELSE Zero

\* (intersection / union) * 100 if union > 0 else 0
Ratio(intersection, union) ==
    IF union > 0 THEN [num |-> intersection * 100, den |-> union] ELSE Zero

\* Mutant of calculate_compatibility_score: the share of sys1's functions that
\* sys2 has, intersection / len(sigs1).
calculate_compatibility_score_share(ifs, sys1, sys2) ==
    IF sys1 \notin DOMAIN ifs \/ sys2 \notin DOMAIN ifs THEN Zero
    ELSE LET sigs1 == SignatureKeys(ifs, sys1)
             sigs2 == SignatureKeys(ifs, sys2)
         IN  IF sigs1 = {} \/ sigs2 = {} THEN Zero
             ELSE Ratio(Cardinality(sigs1 \cap sigs2), Cardinality(sigs1))

\* Mutant of calculate_compatibility_score: the overlap coefficient,
\* intersection / min(len(sigs1), len(sigs2)).
calculate_compatibility_score_overlap(ifs, sys1, sys2) ==
    IF sys1 \notin DOMAIN ifs \/ sys2 \notin DOMAIN ifs THEN Zero
    ELSE LET sigs1 == SignatureKeys(ifs, sys1)
             sigs2 == SignatureKeys(ifs, sys2)
             least == IF Cardinality(sigs1) < Cardinality(sigs2)
                      THEN Cardinality(sigs1) ELSE Cardinality(sigs2)
         IN  IF sigs1 = {} \/ sigs2 = {} THEN Zero
             ELSE Ratio(Cardinality(sigs1 \cap sigs2), least)

\* Mutant of calculate_compatibility_score: two sources that both export
\* nothing count as identical (100) instead of 0.
calculate_compatibility_score_empty100(ifs, sys1, sys2) ==
    IF sys1 \notin DOMAIN ifs \/ sys2 \notin DOMAIN ifs THEN Zero
    ELSE LET sigs1 == SignatureKeys(ifs, sys1)
             sigs2 == SignatureKeys(ifs, sys2)
         IN  IF sigs1 = {} /\ sigs2 = {} THEN [num |-> 100, den |-> 1]
             ELSE IF sigs1 = {} \/ sigs2 = {} THEN Zero
             ELSE Ratio(Cardinality(sigs1 \cap sigs2), Cardinality(sigs1 \cup sigs2))

\* IPCMapper.calculate_compatibility_score
calculate_compatibility_score(ifs, sys1, sys2) ==
    IF sys1 \notin DOMAIN ifs \/ sys2 \notin DOMAIN ifs THEN Zero
    ELSE LET sigs1 == SignatureKeys(ifs, sys1)
             sigs2 == SignatureKeys(ifs, sys2)
         IN  IF sigs1 = {} \/ sigs2 = {} THEN Zero
             ELSE Ratio(Cardinality(sigs1 \cap sigs2), Cardinality(sigs1 \cup sigs2))

\* f'{score:.1f}' as a number of tenths: round to the nearest tenth, an exact
\* half to the even tenth.
FormatTenths(score) ==
    LET q == (score.num * 10) \div score.den
        r == (score.num * 10) % score.den
    IN  IF 2 * r < score.den THEN q
        ELSE IF 2 * r > score.den THEN q + 1
        ELSE IF q % 2 = 0 THEN q ELSE q + 1

\* Mutant of Severity: 'High' if score <= 25 else 'Medium'.
Severity_le(score) == IF score.num <= 25 * score.den THEN "High" ELSE "Medium"

\* 'High' if score < 25 else 'Medium'
Severity(score) == IF ScoreLess(score, 25) THEN "High" ELSE "Medium"

\* Mutant of IsConflict: a score of 0 is taken for "no score",
\* if score and score < 50.
IsConflict_truthy(score) == score.num # 0 /\ ScoreLess(score, 50)

\* The test of line 220: the pair is appended to plan['conflicts'].
IsConflict(score) == ScoreLess(score, 50)

\* Mutant of PairSelected: if sys1 != sys2.
PairSelected_ne(sys1, sys2) == sys1 # sys2

\* The test of line 218: the ordered pair (sys1, sys2) is scored.
PairSelected(sys1, sys2) == StrLess(sys1, sys2)

\* The ordered pairs the two nested loops of lines 216-218 score, in loop
\* order.
RECURSIVE InnerLoop(_, _)
InnerLoop(sys1, rest) ==
    IF rest = <<>> THEN <<>>
    ELSE (IF PairSelected(sys1, Head(rest)) THEN <<<<sys1, Head(rest)>>>> ELSE <<>>)
         \o InnerLoop(sys1, Tail(rest))

RECURSIVE OuterLoop(_)
OuterLoop(rest) ==
    IF rest = <<>> THEN <<>>
    ELSE InnerLoop(Head(rest), IPCMapper_systems) \o OuterLoop(Tail(rest))

ScoredPairs == OuterLoop(IPCMapper_systems)

\* plan['conflicts']: one entry per scored pair whose score is below 50.
RECURSIVE Conflicts(_, _)
Conflicts(ifs, pairs) ==
    IF pairs = <<>> THEN <<>>
    ELSE LET p == Head(pairs)
             score == calculate_compatibility_score(ifs, p[1], p[2])
         IN  (IF IsConflict(score)
              THEN <<[systems |-> p,
                      compatibility |-> FormatTenths(score),
                      severity |-> Severity(score)]>>
              ELSE <<>>)
             \o Conflicts(ifs, Tail(pairs))

\* IPCMapper.compare_interfaces: function name -> system -> Present/Missing,
\* over the functions of every entry and the registered systems with an
\* entry.
compare_interfaces(ifs) ==
    LET all_functions == UNION {SignatureKeys(ifs, s) : s \in DOMAIN ifs}
    IN  [func \in all_functions |->
            [system \in MapperSystemSet \cap DOMAIN ifs |->
                IF func \in SignatureKeys(ifs, system) THEN "Present" ELSE "Missing"]]

\* plan['unified_interface'] of generate_synthesis_plan (lines 205-213).
UnifiedInterface(ifs) ==
    LET comparison == compare_interfaces(ifs)
    IN  [func \in DOMAIN comparison |->
            LET present_in ==
                    Filter(IPCMapper_systems,
                           {s \in DOMAIN comparison[func] : comparison[func][s] = "Present"})
            IN  IF Len(present_in) >= 3 THEN [label |-> "Core", systems |-> <<>>]
                ELSE IF Len(present_in) = 2 THEN [label |-> "Optional", systems |-> present_in]
                ELSE [label |-> "System-specific", systems |-> present_in]]

\* IPCMapper.generate_synthesis_plan.  scored is not part of the returned
\* plan: it records the calls of calculate_compatibility_score the loop made.
generate_synthesis_plan(ifs) ==
    [unified_interface |-> UnifiedInterface(ifs),
     conflicts |-> Conflicts(ifs, ScoredPairs),
     scored |-> ScoredPairs]

\* The compatibility matrix of run_analysis (lines 277-282): every ordered
\* pair of registered systems is scored.
CompatibilityMatrix(ifs) ==
    [sys1 \in MapperSystemSet |->
        [sys2 \in MapperSystemSet |-> calculate_compatibility_score(ifs, sys1, sys2)]]

NoResult == [op |-> "none"]

\* self.systems of OSSynthesizer.__init__: the registered sources, in dict
\* (registration) order.
OSSynthesizer_systems == <<"mach", "lites", "mach4", "gnu">>

SynthSystemSet == Range(OSSynthesizer_systems)

\* BuildAuditor.run_audit has not been called: self.issues is empty and
\* nothing was printed or returned.
NoAudit == [ran |-> FALSE, issues |-> <<>>, critical |-> <<>>, warnings |-> <<>>,
            fixes |-> <<>>, can_build |-> FALSE]

\* run_synthesis has not been called.
Idle == [header |-> 0, stage |-> "idle", next |-> 0]

InitMapper ==
    /\ interfaces = [x \in {} |-> NoSignatures]
    /\ result = NoResult
    /\ trees = <<>>
    /\ merged = <<>>
    /\ phase = "setup"
    /\ guards = <<>>
    /\ roots = <<>>
    /\ created = {}
    /\ results = <<>>
    /\ call_graphs = <<>>
    /\ pc = Idle
    /\ similar_paths = <<>>
    /\ contents_read = <<>>
    /\ readable_roots = SynthSystemSet
    /\ audit_tree = {}
    /\ audit = NoAudit

\* IPCMapper.extract_mach_messages(system_name): the entry of the system
\* exists afterwards; its 'function_signatures' key is left as it is.  The
\* returned msg_types are used by no caller.
ExtractMachMessages(system) ==
    /\ interfaces' = SetEntry(interfaces, system,
                              IF system \in DOMAIN interfaces
                              THEN interfaces[system] ELSE NoSignatures)
    /\ result' = NoResult
    /\ UNCHANGED <<synthVars, runVars, toolVars, auditVars>>

\* IPCMapper.extract_function_signatures(system_name): the names grep finds
\* in the source tree become the entry's 'function_signatures'.  The source
\* trees do not change during a run, so a second extraction of the same
\* system finds the same names and changes nothing: only the first one is a
\* step.
ExtractFunctionSignatures(system) ==
    /\ IF system \in DOMAIN interfaces
       THEN ~interfaces[system].has_function_signatures
       ELSE TRUE
    /\ \E sigs \in SigSets :
           interfaces' = SetEntry(interfaces, system, WithSignatures(sigs))
    /\ result' = NoResult
    /\ UNCHANGED <<synthVars, runVars, toolVars, auditVars>>

\* The compatibility matrix loop of run_analysis.
ComputeMatrix ==
    /\ result' = [op |-> "matrix", matrix |-> CompatibilityMatrix(interfaces)]
    /\ UNCHANGED <<interfaces, synthVars, runVars, toolVars, auditVars>>

\* IPCMapper.generate_synthesis_plan()
GenerateSynthesisPlan ==
    /\ result' = [op |-> "plan", plan |-> generate_synthesis_plan(interfaces)]
    /\ UNCHANGED <<interfaces, synthVars, runVars, toolVars, auditVars>>

NextMapper ==
    \/ \E system \in MapperSystemSet : ExtractMachMessages(system)
    \/ \E system \in MapperSystemSet : ExtractFunctionSignatures(system)
    \/ ComputeMatrix
    \/ GenerateSynthesisPlan

SpecMapper == InitMapper /\ [][NextMapper]_vars

(***************************************************************************)
(* Claims about IPCMapper, checked under SpecMapper.                       *)
(***************************************************************************)

\* The function-symbol set of a source: the names of its extracted
\* signatures, empty when nothing was extracted for it.
FunctionSymbols(sys) ==
    IF sys \in DOMAIN interfaces /\ interfaces[sys].has_function_signatures
    THEN interfaces[sys].function_signatures
    ELSE {}

MatrixComputed == result.op = "matrix"

PlanComputed == result.op = "plan"

\* The entries of plan['conflicts'] about the unordered pair {a, b}.
EdgesOf(a, b) ==
    {i \in DOMAIN result.plan.conflicts :
        result.plan.conflicts[i].systems \in {<<a, b>>, <<b, a>>}}

\* C4: the compatibility score is symmetric: for any two registered sources
\* A and B and any state of the extracted interfaces, the score of (A, B)
\* equals the score of (B, A).
C4_ScoreSymmetric ==
    MatrixComputed =>
        \A a, b \in MapperSystemSet : result.matrix[a][b] = result.matrix[b][a]

\* C4 witness: the matrix was computed for two sources with different,
\* overlapping function sets of different sizes.
C4_Witness ==
    /\ MatrixComputed
    /\ \E a, b \in MapperSystemSet :
          /\ Cardinality(FunctionSymbols(a)) < Cardinality(FunctionSymbols(b))
          /\ FunctionSymbols(a) \cap FunctionSymbols(b) # {}
          /\ FunctionSymbols(a) \ FunctionSymbols(b) # {}

\* C5: for every pair of sources whose function-symbol sets are both
\* nonempty the score is |A n B| / |A u B| * 100; in particular {a,b,c}
\* against {b,c,d} scores exactly 50.
C5_ScoreIsJaccard ==
    MatrixComputed =>
        \A a, b \in MapperSystemSet :
            (FunctionSymbols(a) # {} /\ FunctionSymbols(b) # {}) =>
                /\ result.matrix[a][b].den > 0
                /\ result.matrix[a][b].num
                      * Cardinality(FunctionSymbols(a) \cup FunctionSymbols(b))
                   = 100 * Cardinality(FunctionSymbols(a) \cap FunctionSymbols(b))
                      * result.matrix[a][b].den

\* C5 witness: the scenario {a,b,c} against {b,c,d}, scored 50.
C5_Witness ==
    /\ MatrixComputed
    /\ FunctionSymbols("CMU-Mach-MK83") = {"mach_msg", "port_allocate", "task_create"}
    /\ FunctionSymbols("Lites") = {"port_allocate", "task_create", "thread_create"}
    /\ ScoreIs(result.matrix["CMU-Mach-MK83"]["Lites"], 50)

\* C6: the score is 100 exactly when the two function-symbol sets are equal
\* and nonempty: a source with a nonempty set scores 100 against itself, and
\* no pair of unequal sets and no pair of empty sets scores 100.
C6_HundredIffEqualNonempty ==
    MatrixComputed =>
        \A a, b \in MapperSystemSet :
            ScoreIs(result.matrix[a][b], 100)
                <=> (FunctionSymbols(a) = FunctionSymbols(b) /\ FunctionSymbols(a) # {})

\* C6 witness: the matrix holds a 100 for two distinct sources with the same
\* nonempty set, a source with an empty set scored against itself, and a
\* pair where one set strictly contains the other.
C6_Witness ==
    /\ MatrixComputed
    /\ \E a, b \in MapperSystemSet :
          a # b /\ FunctionSymbols(a) = FunctionSymbols(b) /\ FunctionSymbols(a) # {}
             /\ ScoreIs(result.matrix[a][b], 100)
    /\ \E a \in MapperSystemSet :
          FunctionSymbols(a) = {} /\ ~ScoreIs(result.matrix[a][a], 100)
    /\ \E a, b \in MapperSystemSet :
          /\ FunctionSymbols(a) # {}
          /\ FunctionSymbols(a) \subseteq FunctionSymbols(b)
          /\ FunctionSymbols(a) # FunctionSymbols(b)

\* C7: the score is 0 whenever either source's function-symbol set is empty,
\* also when both are empty and when a source has no interface entry at all.
C7_ZeroWhenEitherEmpty ==
    MatrixComputed =>
        \A a, b \in MapperSystemSet :
            (FunctionSymbols(a) = {} \/ FunctionSymbols(b) = {}) =>
                ScoreIs(result.matrix[a][b], 0)

\* C7 witness: the matrix was computed with one source without an entry, one
\* with an entry that has no 'function_signatures', one whose extraction
\* found nothing, and one with a nonempty set.
C7_Witness ==
    /\ MatrixComputed
    /\ \E a, b, c, d \in MapperSystemSet :
          /\ a \notin DOMAIN interfaces
          /\ b \in DOMAIN interfaces /\ ~interfaces[b].has_function_signatures
          /\ c \in DOMAIN interfaces /\ interfaces[c].has_function_signatures
             /\ interfaces[c].function_signatures = {}
          /\ FunctionSymbols(d) # {}
          /\ ScoreIs(result.matrix[a][d], 0)
          /\ ScoreIs(result.matrix[b][c], 0)

\* C8: in generate_synthesis_plan a pair gets an edge of severity High when
\* its score is below 25, an edge of severity Medium when 25 <= score < 50,
\* and no edge when score >= 50 (exactly 50 is not reported, exactly 25 is
\* Medium).
C8_SeverityClassification ==
    PlanComputed =>
        \A a, b \in MapperSystemSet :
            StrLess(a, b) =>
                LET score == calculate_compatibility_score(interfaces, a, b)
                    edges == EdgesOf(a, b)
                IN  /\ ScoreLess(score, 25) =>
                          /\ edges # {}
                          /\ \A i \in edges : result.plan.conflicts[i].severity = "High"
                    /\ (~ScoreLess(score, 25) /\ ScoreLess(score, 50)) =>
                          /\ edges # {}
                          /\ \A i \in edges : result.plan.conflicts[i].severity = "Medium"
                    /\ ~ScoreLess(score, 50) => edges = {}

\* C8 witness: one plan with a pair scored exactly 25 and reported Medium, a
\* pair scored exactly 50 and not reported, and a pair reported High.
C8_Witness ==
    /\ PlanComputed
    /\ \E a, b \in MapperSystemSet :
          /\ Cardinality(FunctionSymbols(a) \cap FunctionSymbols(b)) = 1
          /\ Cardinality(FunctionSymbols(a) \cup FunctionSymbols(b)) = 4
          /\ \E i \in EdgesOf(a, b) :
                /\ result.plan.conflicts[i].severity = "Medium"
                /\ result.plan.conflicts[i].compatibility = 250
    /\ \E a, b \in MapperSystemSet :
          /\ a # b
          /\ Cardinality(FunctionSymbols(a) \cap FunctionSymbols(b)) = 2
          /\ Cardinality(FunctionSymbols(a) \cup FunctionSymbols(b)) = 4
          /\ EdgesOf(a, b) = {}
    /\ \E i \in DOMAIN result.plan.conflicts :
          result.plan.conflicts[i].severity = "High"

\* C9: every unordered pair of sources in which one source exports a
\* nonempty function set and the other the empty set is reported as a
\* conflict edge with score 0 and severity High.
C9_EmptyAgainstNonemptyReported ==
    PlanComputed =>
        \A a, b \in MapperSystemSet :
            (FunctionSymbols(a) # {} /\ FunctionSymbols(b) = {}) =>
                \E i \in EdgesOf(a, b) :
                    /\ result.plan.conflicts[i].compatibility = 0
                    /\ result.plan.conflicts[i].severity = "High"

\* C9 witness: a plan for scenario 3, one source exporting one name and
\* another exporting nothing, in both orders of the two identifiers.
C9_Witness ==
    /\ PlanComputed
    /\ \E a, b, c \in MapperSystemSet :
          /\ Cardinality(FunctionSymbols(a)) = 1
          /\ b \in DOMAIN interfaces /\ interfaces[b].has_function_signatures
          /\ FunctionSymbols(b) = {}
          /\ FunctionSymbols(c) = {}
          /\ StrLess(a, b) /\ StrLess(c, a)
          /\ EdgesOf(a, b) # {} /\ EdgesOf(a, c) # {}

\* C10: generate_synthesis_plan visits every unordered pair of distinct
\* registered sources exactly once, in canonical form (A < B); the conflicts
\* list holds no pair (A, A), never both (A, B) and (B, A), and no pair twice.
C10_PairsVisitedOnce ==
    PlanComputed =>
        /\ \A a, b \in MapperSystemSet :
              a # b =>
                 Cardinality({i \in DOMAIN result.plan.scored :
                                 result.plan.scored[i] \in {<<a, b>>, <<b, a>>}}) = 1
        /\ \A i \in DOMAIN result.plan.scored :
              StrLess(result.plan.scored[i][1], result.plan.scored[i][2])
        /\ \A i \in DOMAIN result.plan.conflicts :
              StrLess(result.plan.conflicts[i].systems[1],
                      result.plan.conflicts[i].systems[2])
        /\ \A a, b \in MapperSystemSet : Cardinality(EdgesOf(a, b)) <= 1

\* C10 witness: a plan in which all six pairs are conflicts.
C10_Witness ==
    /\ PlanComputed
    /\ Len(result.plan.conflicts) = 6
    /\ \E a \in MapperSystemSet : FunctionSymbols(a) # {}

(***************************************************************************)
(* OSSynthesizer (src/synthesizer.py)                                      *)
(*                                                                         *)
(* Text is modelled at the level the regular expressions of                *)
(* synthesize_content see it.  A string is the sequence of its code        *)
(* points.  A header is a sequence of lines, each of one of three shapes:  *)
(*                                                                         *)
(*     define      #define NAME body                                       *)
(*     typedef     typedef body NAME;                                      *)
(*     function    body NAME(void);                                        *)
(*                                                                         *)
(* where body is one word.  The operators Findall and Search below give    *)
(* the result of the code's re.findall and re.search calls on such text.   *)
(***************************************************************************)

\* The position of a registered source in the registration order.
Rank(system) == CHOOSE i \in DOMAIN OSSynthesizer_systems : OSSynthesizer_systems[i] = system

\* str.upper() and str.lower() on ASCII text.
Upper(str) == [i \in DOMAIN str |-> IF str[i] >= 97 /\ str[i] <= 122 THEN str[i] - 32 ELSE str[i]]

Lower(str) == [i \in DOMAIN str |-> IF str[i] >= 65 /\ str[i] <= 90 THEN str[i] + 32 ELSE str[i]]

\* str.replace(old, new) for one-character old and new.
Replace(str, old, new) == [i \in DOMAIN str |-> IF str[i] = old THEN new ELSE str[i]]

\* sub in str
Contains(str, sub) ==
    \E i \in 0..(Len(str) - Len(sub)) : SubSeq(str, i + 1, i + Len(sub)) = sub

\* str.startswith(prefix)
StartsWith(str, prefix) ==
    Len(prefix) <= Len(str) /\ SubSeq(str, 1, Len(prefix)) = prefix

\* The header the source trees of the model hold: 'port.h', one of the ten
\* names of merge_headers.  No tree holds any of the other nine.
port_h == <<112, 111, 114, 116, 46, 104>>

\* The symbol names of the model: A and AB, one a prefix of the other.
SymbolNames == {<<65>>, <<65, 66>>}

Kinds == {"define", "typedef", "function"}

\* Bound: the number of lines of all source trees together.
MaxLines == 3

\* A line of a source tree.  Its body is the word the source spells its
\* definition with; each source has a spelling of its own, so the origin of
\* an emitted body can be read off it.
SourceLine(system, kind, name) == [kind |-> kind, name |-> name, body |-> Rank(system)]

\* A piece of matched text: a whole line, or a line without its first
\* character (the '#' of a #define).
Whole(line) == [whole |-> TRUE, line |-> line]

Tail1(line) == [whole |-> FALSE, line |-> line]

Min(S) == CHOOSE x \in S : \A y \in S : x <= y

\* re.findall of lines 134, 139 and 144: the names of the lines of one kind.
Findall(kind, content) ==
    {content[i].name : i \in {j \in DOMAIN content : content[j].kind = kind}}

\* Mutant of DefineMatches: the name must be followed by white space,
\* #define\s+NAME\s.
DefineMatches_exact(line, define) == line.kind = "define" /\ line.name = define

\* A line matches ^(#define\s+NAME.*?)$ of line 168: a #define whose name
\* starts with NAME.
DefineMatches(line, define) == line.kind = "define" /\ StartsWith(line.name, define)

\* re.search of lines 168-169 (MULTILINE): the first line that matches.
\* <<>> stands for no match.
SearchDefine(content, define) ==
    LET hits == {i \in DOMAIN content : DefineMatches(content[i], define)}
    IN  IF hits = {} THEN <<>> ELSE <<Whole(content[Min(hits)])>>

\* re.search of lines 184-185 (DOTALL, not anchored): the match starts at
\* the first 'typedef' of the text and runs to the first 'NAME;' after it.
SearchTypedef(content, typedef) ==
    LET typedefs == {i \in DOMAIN content : content[i].kind = "typedef"}
        hits == {i \in typedefs : content[i].name = typedef}
    IN  IF hits = {} THEN <<>>
        ELSE [i \in 1..(Min(hits) - Min(typedefs) + 1) |->
                 Whole(content[Min(typedefs) + i - 1])]

\* re.search of lines 201-202 (not anchored): the first declaration of NAME;
\* (?:\w+\s+)+ also takes the words of a #define line right before it, from
\* after its '#'.
SearchFunction(content, func) ==
    LET hits == {i \in DOMAIN content :
                    content[i].kind = "function" /\ content[i].name = func}
        j == Min(hits)
    IN  IF hits = {} THEN <<>>
        ELSE IF j > 1 /\ content[j - 1].kind = "define"
             THEN <<Tail1(content[j - 1]), Whole(content[j])>>
             ELSE <<Whole(content[j])>>

Search(kind, content, name) ==
    CASE kind = "define" -> SearchDefine(content, name)
      [] kind = "typedef" -> SearchTypedef(content, name)
      [] kind = "function" -> SearchFunction(content, name)

\* The list of merge_headers, lines 67-71.
headers ==
    <<
       <<109, 97, 99, 104, 46, 104>>,   \* mach.h
       <<109, 97, 99, 104, 95, 116, 121, 112, 101, 115, 46, 104>>,   \* mach_types.h
       <<109, 97, 99, 104, 95, 105, 110, 116, 101, 114, 102, 97, 99, 101, 46, 104>>,   \* mach_interface.h
       <<116, 97, 115, 107, 46, 104>>,   \* task.h
       <<116, 104, 114, 101, 97, 100, 46, 104>>,   \* thread.h
       <<118, 109, 95, 109, 97, 112, 46, 104>>,   \* vm_map.h
       <<112, 111, 114, 116, 46, 104>>,   \* port.h
       <<109, 101, 115, 115, 97, 103, 101, 46, 104>>,   \* message.h
       <<115, 121, 115, 99, 97, 108, 108, 46, 104>>,   \* syscall.h
       <<101, 114, 114, 110, 111, 46, 104>> >>   \* errno.h

\* An element of merged_lines.  t names the text appended; kind, name,
\* systems and text hold what varies in it.
Chunk(t, kind, name, systems, text) ==
    [t |-> t, kind |-> kind, name |-> name, systems |-> systems, text |-> text]

\* The keys of contents in dict order: intelligent_merge inserts them in the
\* order of file_paths, which find_similar_files fills in the order of
\* self.systems.
Keys(contents) == Filter(OSSynthesizer_systems, DOMAIN contents)

\* all_defines, all_typedefs and all_functions after the loop of lines
\* 132-146: symbol name -> the systems whose text declares it.
AllSymbols(kind, contents) ==
    LET names == UNION {Findall(kind, contents[s]) : s \in DOMAIN contents}
    IN  [n \in names |-> {s \in DOMAIN contents : n \in Findall(kind, contents[s])}]

\* sorted(...) on a set of names: ascending str order.
RECURSIVE Sorted(_)
Sorted(S) ==
    IF S = {} THEN <<>>
    ELSE LET least == CHOOSE x \in S : \A y \in S \ {x} : LexLess(x, y)
         IN  <<least>> \o Sorted(S \ {least})

\* Mutant of SymbolOrder: the names in the reverse order.
RECURSIVE SymbolOrder_reversed(_)
SymbolOrder_reversed(S) ==
    IF S = {} THEN <<>>
    ELSE LET least == CHOOSE x \in S : \A y \in S \ {x} : LexLess(x, y)
         IN  SymbolOrder_reversed(S \ {least}) \o <<least>>

\* The order in which one section lists its symbols: sorted(all.items()).
SymbolOrder(S) == Sorted(S)

\* ', '.join(systems) for a set of str: the elements in the set's iteration
\* order.  That order follows the str hashes, which CPython draws anew for
\* every interpreter; order is the order this interpreter gives the source
\* identifiers.
Join(order, systems) == Filter(order, systems)

\* Mutant of Candidates: the sources are tried in reverse registration order.
Candidates_reversed(contents) ==
    [i \in 1..Len(Keys(contents)) |-> Keys(contents)[Len(Keys(contents)) + 1 - i]]

\* The sources the loops of lines 166, 182 and 199 try, in order:
\* contents.items().
Candidates(contents) == Keys(contents)

\* The loops of lines 166-172, 182-188 and 199-205: the match in the first
\* system of contents that declares the symbol and whose text matches.
RECURSIVE FirstMatch(_, _, _, _, _)
FirstMatch(kind, keys, contents, systems, name) ==
    IF keys = <<>> THEN <<>>
    ELSE LET match == IF Head(keys) \in systems
                      THEN Search(kind, contents[Head(keys)], name)
                      ELSE <<>>
         IN  IF match # <<>>
             THEN <<Chunk("text", kind, name, <<Head(keys)>>, match)>>
             ELSE FirstMatch(kind, Tail(keys), contents, systems, name)

\* Whether a provenance comment is written for a symbol: len(systems) > 1.
Contended(systems) == Cardinality(systems) > 1

\* One section of the output (lines 161-172, 175-191, 194-205): per symbol
\* the provenance comment, for a typedef the HAVE_ guard, and the match.
RECURSIVE EmitSymbols(_, _, _, _, _)
EmitSymbols(kind, names, all, contents, order) ==
    IF names = <<>> THEN <<>>
    ELSE LET name == Head(names)
             systems == all[name]
             guarded == Contended(systems) /\ kind = "typedef"
         IN  (IF Contended(systems)
              THEN <<Chunk("provenance", kind, name, Join(order, systems), <<>>)>>
              ELSE <<>>)
             \o (IF guarded
                 THEN <<Chunk("ifndef HAVE_", kind, Upper(name), <<>>, <<>>),
                        Chunk("define HAVE_", kind, Upper(name), <<>>, <<>>)>>
                 ELSE <<>>)
             \o FirstMatch(kind, Candidates(contents), contents, systems, name)
             \o (IF guarded THEN <<Chunk("endif", kind, <<>>, <<>>, <<>>)>> ELSE <<>>)
             \o EmitSymbols(kind, Tail(names), all, contents, order)

Section(kind, contents, order) ==
    <<Chunk("section", kind, <<>>, <<>>, <<>>)>>
    \o EmitSymbols(kind, SymbolOrder(DOMAIN AllSymbols(kind, contents)),
                   AllSymbols(kind, contents), contents, order)

\* The guard token of line 149: "_SYNTHESIZED_" + upper, '.' -> '_' + "_".
Guard(filename) ==
    <<95, 83, 89, 78, 84, 72, 69, 83, 73, 90, 69, 68, 95>>
    \o Replace(Upper(filename), 46, 95) \o <<95>>

\* The text of a whole file as one piece of text.
Verbatim(content) ==
    <<Chunk("text", "", <<>>, <<>>, [i \in DOMAIN content |-> Whole(content[i])])>>

\* OSSynthesizer.synthesize_content(filename, contents), run by an
\* interpreter whose sets iterate in the given order.
synthesize_content(filename, contents, order) ==
    IF Cardinality(DOMAIN contents) = 1
    THEN Verbatim(contents[Keys(contents)[1]])
    ELSE <<Chunk("header", "", filename, Keys(contents), <<>>),
           Chunk("ifndef", "", Guard(filename), <<>>, <<>>),
           Chunk("define", "", Guard(filename), <<>>, <<>>),
           Chunk("system configuration", "", <<>>, <<>>, <<>>)>>
         \o Section("define", contents, order)
         \o Section("typedef", contents, order)
         \o Section("function", contents, order)
         \o <<Chunk("endif", "", Guard(filename), <<>>, <<>>)>>

\* OSSynthesizer.find_similar_files(filename): system -> the paths find
\* prints for it; a system whose tree has no such file gets no key.  A path
\* is named by its tree and the file name.
find_similar_files(filename) ==
    IF filename = port_h
    THEN [system \in DOMAIN trees |-> <<[tree |-> system, name |-> filename]>>]
    ELSE [system \in {} |-> <<>>]

\* open(path).read()
ReadFile(path) == trees[path.tree]

\* The output path of lines 98-108: the directory under merged/ and the file
\* name.
OutputPath(filename) ==
    [dir |-> IF Contains(filename, <<46, 104>>)
             THEN IF Contains(Lower(filename), <<109, 97, 99, 104>>)
                  THEN "include/mach" ELSE "include/sys"
             ELSE "kernel",
     name |-> filename]

\* files with f.write(text) done at path.
WriteFile(files, path, text) ==
    [x \in (DOMAIN files) \cup {path} |-> IF x = path THEN text ELSE files[x]]

\* OSSynthesizer.intelligent_merge(filename, file_paths): the merged tree
\* afterwards.  contents holds the text of paths[0] of every system in
\* file_paths.
intelligent_merge(files, filename, file_paths, order) ==
    LET contents == [system \in DOMAIN file_paths |-> ReadFile(file_paths[system][1])]
    IN  IF DOMAIN contents = {} THEN files
        ELSE WriteFile(files, OutputPath(filename),
                       synthesize_content(filename, contents, order))

\* The loop of OSSynthesizer.merge_headers, lines 73-76.
RECURSIVE MergeLoop(_, _, _)
MergeLoop(files, todo, order) ==
    IF todo = <<>> THEN files
    ELSE LET similar == find_similar_files(Head(todo))
         IN  MergeLoop(IF DOMAIN similar # {}
                       THEN intelligent_merge(files, Head(todo), similar, order)
                       ELSE files,
                       Tail(todo), order)

\* The orders in which an interpreter may iterate a set of these source
\* identifiers.
Orders(S) ==
    {o \in [1..Cardinality(S) -> S] : \A i, j \in DOMAIN o : o[i] = o[j] => i = j}

TotalLines == LET RECURSIVE Sum(_)
                  Sum(S) == IF S = {} THEN 0
                            ELSE LET x == CHOOSE y \in S : TRUE
                                 IN  Len(trees[x]) + Sum(S \ {x})
              IN  Sum(DOMAIN trees)

InitSynth ==
    /\ interfaces = [x \in {} |-> NoSignatures]
    /\ result = NoResult
    /\ trees = <<>>
    /\ merged = <<>>
    /\ phase = "setup"
    /\ guards = <<>>
    /\ roots = <<>>
    /\ created = {}
    /\ results = <<>>
    /\ call_graphs = <<>>
    /\ pc = Idle
    /\ similar_paths = <<>>
    /\ contents_read = <<>>
    /\ readable_roots = SynthSystemSet
    /\ audit_tree = {}
    /\ audit = NoAudit

\* Before the run: one more line in a tree's port.h.  The file comes to exist
\* with its first line: the trees of the model hold no empty port.h.
WriteSource(system) ==
    /\ phase = "setup"
    /\ TotalLines < MaxLines
    /\ \E kind \in Kinds, name \in SymbolNames :
          trees' = [x \in (DOMAIN trees) \cup {system} |->
                       IF x = system
                       THEN Append(IF system \in DOMAIN trees THEN trees[system] ELSE <<>>,
                                   SourceLine(system, kind, name))
                       ELSE trees[x]]
    /\ UNCHANGED <<merged, phase, mapperVars, runVars, toolVars, auditVars>>

\* The source identifiers that occur in a set synthesize_content joins: the
\* members of the sets of more than one system.  The position of any other
\* identifier in the iteration order shows in no output.
JoinedSystems ==
    UNION {UNION {AllSymbols(kind, trees)[name] :
                     name \in {n \in DOMAIN AllSymbols(kind, trees) :
                                  Contended(AllSymbols(kind, trees)[n])}} :
           kind \in Kinds}

\* One execution of OSSynthesizer.merge_headers, by an interpreter of its
\* own.  The source trees are not written.
MergeHeaders ==
    /\ \E order \in Orders(JoinedSystems) :
          merged' = MergeLoop(merged, headers, order)
    /\ phase' = "merged"
    /\ UNCHANGED <<trees, mapperVars, runVars, toolVars, auditVars>>

NextSynth ==
    \/ \E system \in SynthSystemSet : WriteSource(system)
    \/ MergeHeaders

SpecSynth == InitSynth /\ [][NextSynth]_vars

(***************************************************************************)
(* Claims about OSSynthesizer, checked under SpecSynth.                    *)
(***************************************************************************)

\* merge_headers has written the synthesized port.h.
Synthesized == phase = "merged" /\ OutputPath(port_h) \in DOMAIN merged

Output == merged[OutputPath(port_h)]

\* The sources whose extraction for the header holds the symbol.
SourcesOf(kind, name) ==
    {s \in DOMAIN trees :
        \E i \in DOMAIN trees[s] : trees[s][i].kind = kind /\ trees[s][i].name = name}

\* The source of highest priority among a set of sources: the one registered
\* first.
HighestPriority(S) == CHOOSE s \in S : \A r \in S : Rank(s) <= Rank(r)

\* The places of the output that hold a body of the symbol: a whole line of
\* its kind and name inside an emitted match.
EmittedBodies(kind, name) ==
    {p \in UNION {{<<i, j>> : j \in DOMAIN Output[i].text} : i \in DOMAIN Output} :
        /\ Output[p[1]].t = "text"
        /\ Output[p[1]].text[p[2]].whole
        /\ Output[p[1]].text[p[2]].line.kind = kind
        /\ Output[p[1]].text[p[2]].line.name = name}

\* The provenance comments of the output for the symbol.
ProvenanceOf(kind, name) ==
    {i \in DOMAIN Output :
        Output[i].t = "provenance" /\ Output[i].kind = kind /\ Output[i].name = name}

\* C1: for every symbol that appears in k > 1 sources' extractions, the
\* output of synthesize_content holds exactly one body for that symbol, the
\* body of the highest-priority (earliest registered) of those sources, and
\* a provenance annotation that lists all k source identifiers.
C1_ContendedSymbolOneCanonicalBody ==
    Synthesized =>
        \A kind \in Kinds, name \in SymbolNames :
            Cardinality(SourcesOf(kind, name)) > 1 =>
                /\ Cardinality(EmittedBodies(kind, name)) = 1
                /\ \A p \in EmittedBodies(kind, name) :
                      Output[p[1]].text[p[2]].line.body
                         = Rank(HighestPriority(SourcesOf(kind, name)))
                /\ \E i \in ProvenanceOf(kind, name) :
                      /\ Range(Output[i].systems) = SourcesOf(kind, name)
                      /\ Len(Output[i].systems) = Cardinality(SourcesOf(kind, name))

\* C2: for every symbol that appears in exactly one source's extraction, the
\* synthesized artifact holds that symbol's body verbatim, whatever the other
\* sources contribute.
C2_SingleSourceBodyVerbatim ==
    Synthesized =>
        \A kind \in Kinds, name \in SymbolNames :
            Cardinality(SourcesOf(kind, name)) = 1 =>
                \E p \in EmittedBodies(kind, name) :
                    Output[p[1]].text[p[2]].line.body
                       = Rank(HighestPriority(SourcesOf(kind, name)))

\* C3: idempotence: running the synthesis again on unchanged source trees
\* leaves every output artifact byte-identical, the text and order of every
\* provenance annotation included.
C3_RerunIsIdentical ==
    [][(phase = "merged" /\ phase' = "merged" /\ trees' = trees) => merged' = merged]_vars

(***************************************************************************)
(* SpecGuard: synthesize_content as a function of the artifact name.       *)
(*                                                                         *)
(* synthesize_content takes the artifact name as its argument filename;    *)
(* the guard token depends on nothing else.  The names are the strings of  *)
(* at most MaxNameLen characters over Alphabet; the contents are one fixed *)
(* pair of sources, so that the guarded form of the output is produced.    *)
(***************************************************************************)

\* The characters of an artifact name: 'A', 'a', 'h', '.' and '_'.
Alphabet == {65, 97, 104, 46, 95}

\* Bound: the length of an artifact name.
MaxNameLen == 3

FileNames == UNION {[1..n -> Alphabet] : n \in 1..MaxNameLen}

\* Two sources of a header, each with one macro.
TwoSources ==
    [system \in {"mach", "lites"} |-> <<SourceLine(system, "define", <<65>>)>>]

\* The guard token in the text synthesize_content returns: the name of its
\* #ifndef line (line 150).
GuardOf(text) == text[CHOOSE i \in DOMAIN text : text[i].t = "ifndef" /\ text[i].kind = ""].name

InitGuard ==
    /\ interfaces = [x \in {} |-> NoSignatures]
    /\ result = NoResult
    /\ trees = <<>>
    /\ merged = <<>>
    /\ phase = "setup"
    /\ guards = <<>>
    /\ roots = <<>>
    /\ created = {}
    /\ results = <<>>
    /\ call_graphs = <<>>
    /\ pc = Idle
    /\ similar_paths = <<>>
    /\ contents_read = <<>>
    /\ readable_roots = SynthSystemSet
    /\ audit_tree = {}
    /\ audit = NoAudit

\* One call synthesize_content(filename, contents) of the run.  A run of
\* the model makes two calls: a collision takes two names.
SynthesizeContent(filename) ==
    /\ Cardinality(DOMAIN guards) < 2
    /\ filename \notin DOMAIN guards
    /\ \E order \in Orders(DOMAIN TwoSources) :
          guards' = [x \in (DOMAIN guards) \cup {filename} |->
                        IF x = filename
                        THEN GuardOf(synthesize_content(filename, TwoSources, order))
                        ELSE guards[x]]
    /\ UNCHANGED <<mapperVars, synthVars, runVars, created, results, call_graphs, auditVars>>

NextGuard == \E filename \in FileNames : SynthesizeContent(filename)

SpecGuard == InitGuard /\ [][NextGuard]_vars

SectionAt(kind) ==
    CHOOSE i \in DOMAIN Output : Output[i].t = "section" /\ Output[i].kind = kind

\* C12: a synthesized artifact is emitted in this fixed order: the opening
\* guard, the provenance header comment that lists all contributing source
\* identifiers, the Macro section, the TypeAlias section, the FunctionDecl
\* section, the closing guard; nothing comes before the opening guard or
\* after the closing guard.
C12_FixedEmissionOrder ==
    Synthesized =>
        /\ Len(Output) >= 7
        /\ Output[1].t = "ifndef" /\ Output[1].name = Guard(port_h)
        /\ Output[2].t = "define" /\ Output[2].name = Guard(port_h)
        /\ Output[3].t = "header" /\ Range(Output[3].systems) = DOMAIN trees
        /\ \A kind \in Kinds : \E i \in DOMAIN Output :
              Output[i].t = "section" /\ Output[i].kind = kind
        /\ 3 < SectionAt("define")
        /\ SectionAt("define") < SectionAt("typedef")
        /\ SectionAt("typedef") < SectionAt("function")
        /\ Output[Len(Output)].t = "endif" /\ Output[Len(Output)].name = Guard(port_h)

\* The places of the output that define or declare the name: the whole
\* lines of any kind that carry it.
DefinitionsOf(name) ==
    {p \in UNION {{<<i, j>> : j \in DOMAIN Output[i].text} : i \in DOMAIN Output} :
        /\ Output[p[1]].t = "text"
        /\ Output[p[1]].text[p[2]].whole
        /\ Output[p[1]].text[p[2]].line.name = name}

\* The places of the output where the synthesizer defines HAVE_<name> itself.
AuxiliaryDefinitionsOf(name) ==
    {i \in DOMAIN Output : Output[i].t = "define HAVE_" /\ Output[i].name = name}

\* C13: symbol names are unique per synthesized artifact: no name is defined
\* or declared more than once in one output of synthesize_content, the
\* three sections counted together and the auxiliary definitions of the
\* synthesizer included.
C13_SymbolNamesUnique ==
    Synthesized =>
        \A name \in SymbolNames :
            /\ Cardinality(DefinitionsOf(name)) <= 1
            /\ Cardinality(AuxiliaryDefinitionsOf(Upper(name))) <= 1

(***************************************************************************)
(* SpecRun: OSSynthesizer.run_synthesis step by step.                      *)
(*                                                                         *)
(* A source root holds header files at paths root/dir/name.  For one       *)
(* system, roots lists them in the order the find command of line 55       *)
(* prints them, which is the order of the directory walk and not an order  *)
(* of the paths.  A file may be unreadable (open raises).  The text of a   *)
(* file is one line that declares the symbol A: as a macro in the mach and *)
(* mach4 trees, as a type alias in the lites and gnu trees; its body names *)
(* the file.                                                               *)
(*                                                                         *)
(* The merged directory structure exists: OSSynthesizer.__init__ has run.  *)
(***************************************************************************)

message_h == <<109, 101, 115, 115, 97, 103, 101, 46, 104>>

\* The headers the source roots of SpecRun may hold, both among the ten of
\* merge_headers and both in the list mach_headers of run_fixes.
RootHeaders == {port_h, message_h}

\* The directories of a source root: 'include' and 'kernel'.
include_dir == <<105, 110, 99, 108, 117, 100, 101>>

kernel_dir == <<107, 101, 114, 110, 101, 108>>

Dirs == {include_dir, kernel_dir}

\* Bound: the number of header files in all source roots together.
MaxFiles == 2

\* The one line of the header at root/dir/name.
KindIn(system) == IF system \in {"mach", "mach4"} THEN "define" ELSE "typedef"

FileText(system, dir) ==
    << [kind |-> KindIn(system), name |-> <<65>>,
        body |-> 2 * Rank(system) + (IF dir = kernel_dir THEN 1 ELSE 0)] >>

SourceFile(system, dir, name, readable) ==
    [dir |-> dir, name |-> name, readable |-> readable, text |-> FileText(system, dir)]

\* The files of a sequence that carry the name, in the order of the sequence.
RECURSIVE NamedFiles(_, _)
NamedFiles(files, filename) ==
    IF files = <<>> THEN <<>>
    ELSE (IF Head(files).name = filename THEN <<Head(files)>> ELSE <<>>)
         \o NamedFiles(Tail(files), filename)

\* The path of a file below its root, 'dir/name', as the find command
\* prints it after the root.
PathOf(file) == file.dir \o <<47>> \o file.name

\* find {path} -name '{filename}' -type f 2>/dev/null (line 55): the files
\* of that name in the order of the walk; nothing for a root that does not
\* exist or cannot be searched, the error message being dropped.
Find(system, filename) ==
    IF system \in readable_roots
    THEN IF system \in DOMAIN roots
         THEN NamedFiles(roots[system], filename)
         ELSE <<>>
    ELSE <<>>

\* find_similar_files(filename) on the roots: a system gets a key when the
\* command printed something (line 57).
FindSimilarFiles(filename) ==
    [system \in {s \in SynthSystemSet : Find(s, filename) # <<>>} |-> Find(system, filename)]

\* The keys of file_paths in dict order: the order of self.systems.
PathKeys(paths) == Filter(OSSynthesizer_systems, DOMAIN paths)

TotalFiles ==
    LET RECURSIVE Sum(_)
        Sum(S) == IF S = {} THEN 0
                  ELSE LET x == CHOOSE y \in S : TRUE
                       IN  Len(roots[x]) + Sum(S \ {x})
    IN  Sum(DOMAIN roots)

\* A position of run_synthesis: the index of the header merge_headers is at,
\* the stage of the work on it, and in the reading loop the index of the
\* system that is read next.
At(header, stage, next) == [header |-> header, stage |-> stage, next |-> next]

\* The position after the work on a header: the next iteration of the loop
\* of merge_headers (lines 73-76), or after the last one the rest of
\* run_synthesis.
NextHeader(header) ==
    IF header < Len(headers)
    THEN At(header + 1, "discover", 0)
    ELSE At(Len(headers) + 1, "report", 0)

\* Mutant of LoopExit: the reading loop is left after its first iteration.
LoopExit_first(next, n) == next >= 1

\* Whether the iteration just made was the last one of the loop of lines
\* 83-89 over the n systems of file_paths.
LoopExit(next, n) == next = n

\* The position after one iteration of the reading loop.
AfterRead(header, next, n) ==
    IF LoopExit(next, n)
    THEN At(header, "synthesize", 0)
    ELSE At(header, "extract", next + 1)

\* The position after open or write of lines 110-111 raised: the statement
\* is in no try block, the exception leaves intelligent_merge, merge_headers
\* and run_synthesis.
AfterWriteError(header) == At(header, "aborted", 0)

\* Mutant of AfterReadError: after a file that could not be opened the
\* header is looked up again.
AfterReadError_retry(header, next, n) == At(header, "discover", 0)

\* Mutant of AfterReadError: the exception of open leaves intelligent_merge
\* and ends the run.
AfterReadError_raise(header, next, n) == At(header, "aborted", 0)

\* The position after an iteration whose open raised: 'except: continue'
\* (lines 88-89) goes on with the loop.
AfterReadError(header, next, n) == AfterRead(header, next, n)

\* The systems that occur in a set synthesize_content joins for these
\* contents.
Joined(texts) ==
    UNION {UNION {AllSymbols(kind, texts)[name] :
                     name \in {n \in DOMAIN AllSymbols(kind, texts) :
                                  Contended(AllSymbols(kind, texts)[n])}} :
           kind \in Kinds}

InitRun ==
    /\ interfaces = [x \in {} |-> NoSignatures]
    /\ result = NoResult
    /\ trees = <<>>
    /\ merged = <<>>
    /\ phase = "setup"
    /\ guards = <<>>
    /\ roots = <<>>
    /\ created = {}
    /\ results = <<>>
    /\ call_graphs = <<>>
    /\ pc = Idle
    /\ similar_paths = <<>>
    /\ contents_read = <<>>
    /\ readable_roots = SynthSystemSet
    /\ audit_tree = {}
    /\ audit = NoAudit

\* Before the run: one more header file in a source root, printed by find
\* after the files the root already holds.
SetUpRoot(system) ==
    /\ pc = Idle
    /\ merged = <<>>
    /\ system \in readable_roots
    /\ TotalFiles < MaxFiles
    /\ \E dir \in Dirs, name \in RootHeaders, readable \in BOOLEAN :
          LET old == IF system \in DOMAIN roots THEN roots[system] ELSE <<>>
          IN  /\ \A i \in DOMAIN old : PathOf(old[i]) # dir \o <<47>> \o name
              /\ roots' = [x \in (DOMAIN roots) \cup {system} |->
                              IF x = system
                              THEN Append(old, SourceFile(system, dir, name, readable))
                              ELSE roots[x]]
    /\ UNCHANGED <<pc, similar_paths, contents_read, mapperVars, synthVars, toolVars, readable_roots, auditVars>>

\* Before the run: the source trees are not there, as on a machine that has
\* the tools but not the four checkouts below base_path.
LoseRoots ==
    /\ pc = Idle
    /\ merged = <<>>
    /\ roots = <<>>
    /\ readable_roots # {}
    /\ readable_roots' = {}
    /\ UNCHANGED <<roots, pc, similar_paths, contents_read, mapperVars, synthVars,
                   toolVars, auditVars>>

\* run_synthesis is called and enters merge_headers (lines 433-439, 62-73).
StartRun ==
    /\ pc = Idle
    /\ pc' = At(1, "discover", 0)
    /\ UNCHANGED <<roots, similar_paths, contents_read, mapperVars, synthVars, toolVars, readable_roots, auditVars>>

\* Lines 74-75: similar = self.find_similar_files(header); if similar: ...
Discover ==
    /\ pc.stage = "discover"
    /\ LET similar == FindSimilarFiles(headers[pc.header])
       IN  /\ similar_paths' = similar
           /\ pc' = IF DOMAIN similar = {}
                    THEN NextHeader(pc.header)
                    ELSE At(pc.header, "extract", 1)
    /\ contents_read' = <<>>
    /\ UNCHANGED <<roots, mapperVars, synthVars, toolVars, readable_roots, auditVars>>

\* One iteration of the loop of lines 83-89: paths[0] of the next system is
\* opened and read into contents; when open raises the system gets no key.
Extract ==
    /\ pc.stage = "extract"
    /\ LET keys == PathKeys(similar_paths)
           system == keys[pc.next]
           file == similar_paths[system][1]
       IN  IF file.readable
           THEN /\ contents_read' =
                      [x \in (DOMAIN contents_read) \cup {system} |->
                          IF x = system THEN file.text ELSE contents_read[x]]
                /\ pc' = AfterRead(pc.header, pc.next, Len(keys))
           ELSE /\ contents_read' = contents_read
                /\ pc' = AfterReadError(pc.header, pc.next, Len(keys))
    /\ UNCHANGED <<roots, similar_paths, mapperVars, synthVars, toolVars, readable_roots, auditVars>>

\* Lines 91-113: nothing is written when contents is empty; otherwise the
\* text of synthesize_content is written to the output path.  Whether the
\* output file can be opened for writing is the environment's choice.
Synthesize ==
    /\ pc.stage = "synthesize"
    /\ IF DOMAIN contents_read = {}
       THEN /\ merged' = merged
            /\ pc' = NextHeader(pc.header)
       ELSE \E written \in BOOLEAN :
               IF written
               THEN /\ \E order \in Orders(Joined(contents_read)) :
                          merged' = WriteFile(merged, OutputPath(headers[pc.header]),
                                              synthesize_content(headers[pc.header],
                                                                 contents_read, order))
                    /\ pc' = NextHeader(pc.header)
               ELSE /\ merged' = merged
                    /\ pc' = AfterWriteError(pc.header)
    /\ similar_paths' = <<>>
    /\ contents_read' = <<>>
    /\ UNCHANGED <<roots, trees, phase, mapperVars, toolVars, readable_roots, auditVars>>

\* The text of a file one of the tools writes from a string constant of its
\* own.
Fixed(name) == <<Chunk("fixed", "", name, <<>>, <<>>)>>

InMerged(dir, name) == [dir |-> dir, name |-> name]

Makefile == <<77, 97, 107, 101, 102, 105, 108, 101>>

compat_c == <<99, 111, 109, 112, 97, 116, 46, 99>>

synthesis_h == <<115, 121, 110, 116, 104, 101, 115, 105, 115, 46, 104>>

SYNTHESIS_REPORT_txt ==
    <<83, 89, 78, 84, 72, 69, 83, 73, 83, 95, 82, 69, 80, 79, 82, 84, 46, 116, 120, 116>>

\* The merged tree after the steps of run_synthesis that follow
\* merge_headers (lines 442-451).  extract_best_implementations copies from
\* kernel/ipc, kernel/vm, device and server of the roots, which hold no file
\* here.
RestOfSynthesis(files) ==
    WriteFile(WriteFile(WriteFile(files,
        InMerged("kernel", compat_c), Fixed(compat_c)),
        InMerged("include", synthesis_h), Fixed(synthesis_h)),
        InMerged("", Makefile), Fixed(Makefile))

\* generate_report (lines 393-431): the report names the number of files of
\* the merged tree.
generate_report(files) ==
    WriteFile(files, InMerged("", SYNTHESIS_REPORT_txt),
              <<Chunk("report", "", <<Cardinality(DOMAIN files)>>, <<>>, <<>>)>>)

\* Mutant of ReportWriteError: the failed reporting step removes what the
\* run has written.
ReportWriteError_cleanup(files) == <<>>

\* The merged tree after open of line 430 raised in generate_report: the
\* exception leaves run_synthesis, nothing is undone or removed.
ReportWriteError(files) == files

\* Lines 442-456 of run_synthesis.  Whether SYNTHESIS_REPORT.txt can be
\* opened for writing is the environment's choice.
Report ==
    /\ pc.stage = "report"
    /\ \E written \in BOOLEAN :
          IF written
          THEN /\ merged' = generate_report(RestOfSynthesis(merged))
               /\ pc' = At(Len(headers) + 1, "done", 0)
          ELSE /\ merged' = ReportWriteError(RestOfSynthesis(merged))
               /\ pc' = At(Len(headers) + 1, "aborted", 0)
    /\ UNCHANGED <<roots, similar_paths, contents_read, trees, phase, mapperVars, toolVars, readable_roots, auditVars>>

(***************************************************************************)
(* HeaderFixer (src/fix_headers.py), which writes into the same merged     *)
(* tree.  Its source_systems are the four roots of OSSynthesizer, in the   *)
(* same order.                                                             *)
(***************************************************************************)

lock_h == <<108, 111, 99, 107, 46, 104>>

mach_param_h == <<109, 97, 99, 104, 95, 112, 97, 114, 97, 109, 46, 104>>

kalloc_h == <<107, 97, 108, 108, 111, 99, 46, 104>>

zalloc_h == <<122, 97, 108, 108, 111, 99, 46, 104>>

mach_ipc_compat_h ==
    <<109, 97, 99, 104, 95, 105, 112, 99, 95, 99, 111, 109, 112, 97, 116, 46, 104>>

\* The destination directory of find_and_copy_header (lines 32-37).
DestDir(header_name, source_file) ==
    IF Contains(header_name, <<109, 97, 99, 104>>) \/ Contains(header_name, <<105, 112, 99>>)
    THEN "include/mach"
    ELSE IF Contains(PathOf(source_file), <<107, 101, 114, 110>>)
         THEN "include/kern"
         ELSE "include/sys"

\* find_and_copy_header(header_name) over the systems still to try: the
\* first file 'find ... | head -1' prints for the first system that has one
\* is copied; shutil.copy2 raises when it cannot be read.
RECURSIVE find_and_copy_header(_, _, _)
find_and_copy_header(files, header_name, systems) ==
    IF systems = <<>> THEN [files |-> files, raised |-> FALSE]
    ELSE LET found == Find(Head(systems), header_name)
         IN  IF found = <<>>
             THEN find_and_copy_header(files, header_name, Tail(systems))
             ELSE IF found[1].readable
                  THEN [files |-> WriteFile(files,
                                     InMerged(DestDir(header_name, found[1]), header_name),
                                     Verbatim(found[1].text)),
                        raised |-> FALSE]
                  ELSE [files |-> files, raised |-> TRUE]

\* create_missing_kern_headers and create_mach_compatibility_header.
CreatedHeaders(files) ==
    WriteFile(WriteFile(WriteFile(WriteFile(WriteFile(files,
        InMerged("include/kern", lock_h), Fixed(lock_h)),
        InMerged("include/kern", mach_param_h), Fixed(mach_param_h)),
        InMerged("include/kern", kalloc_h), Fixed(kalloc_h)),
        InMerged("include/kern", zalloc_h), Fixed(zalloc_h)),
        InMerged("include/mach", mach_ipc_compat_h), Fixed(mach_ipc_compat_h))

\* The loop of lines 181-184 over mach_headers = ['message.h', 'port.h']; an
\* exception of find_and_copy_header ends run_fixes.
RECURSIVE CopyMissing(_, _)
CopyMissing(files, todo) ==
    IF todo = <<>> THEN files
    ELSE IF InMerged("include/mach", Head(todo)) \in DOMAIN files
         THEN CopyMissing(files, Tail(todo))
         ELSE LET copy == find_and_copy_header(files, Head(todo), OSSynthesizer_systems)
              IN  IF copy.raised THEN copy.files
                  ELSE CopyMissing(copy.files, Tail(todo))

\* HeaderFixer.run_fixes, run while the synthesizer is not running.  The
\* roots hold none of the headers of fix_ipc_headers.
RunFixes ==
    /\ pc.stage \in {"idle", "done"}
    /\ merged' = CopyMissing(CreatedHeaders(merged), <<message_h, port_h>>)
    /\ UNCHANGED <<roots, pc, similar_paths, contents_read, trees, phase, mapperVars, toolVars, readable_roots, auditVars>>

NextRun ==
    \/ \E system \in SynthSystemSet : SetUpRoot(system)
    \/ LoseRoots
    \/ StartRun
    \/ Discover
    \/ Extract
    \/ Synthesize
    \/ Report
    \/ RunFixes

SpecRun == InitRun /\ [][NextRun]_vars

(***************************************************************************)
(* Claims about the run, checked under SpecRun.                            *)
(***************************************************************************)

\* The places of a text that define or declare the name.
DefinitionsIn(text, name) ==
    {p \in UNION {{<<i, j>> : j \in DOMAIN text[i].text} : i \in DOMAIN text} :
        /\ text[p[1]].t = "text"
        /\ text[p[1]].text[p[2]].whole
        /\ text[p[1]].text[p[2]].line.name = name}

\* C14: when the same symbol name is about to be emitted twice within one
\* artifact, a SynthesisInvariantViolation is raised, fatal for that artifact
\* only: no step of intelligent_merge writes an artifact that holds a name
\* twice, and the other artifacts are still synthesized.
C14_DuplicateNameRaises ==
    [][pc.stage = "synthesize" =>
          \A p \in DOMAIN merged' :
              (p \notin DOMAIN merged \/ merged'[p] # merged[p]) =>
                  Cardinality(DefinitionsIn(merged'[p], <<65>>)) <= 1]_vars

\* The sources a header can be read from: the systems whose first printed
\* file of that name can be opened.
ReadableSources(filename) ==
    {s \in SynthSystemSet :
        Find(s, filename) # <<>> /\ Find(s, filename)[1].readable}

\* The sources an artifact's text was made from: the systems its header
\* comment names, or for a text returned unchanged the system whose file it
\* is.
SourcesIn(text) ==
    IF text[1].t = "header"
    THEN Range(text[1].systems)
    ELSE {s \in SynthSystemSet : \E dir \in Dirs : text = Verbatim(FileText(s, dir))}

SmallestPath(files) ==
    CHOOSE f \in Range(files) :
        \A g \in Range(files) : f = g \/ LexLess(PathOf(f), PathOf(g))

\* C16: when an artifact name exists at several paths inside one source
\* tree, the file used for that source is the one with the
\* lexicographically smallest path, whatever the order in which the
\* directory walk returns the matches.
C16_SmallestPathIsUsed ==
    pc.stage = "synthesize" =>
        \A s \in DOMAIN contents_read :
            contents_read[s] = SmallestPath(similar_paths[s]).text

\* The order of the stages of the work on one artifact.  Resolution and
\* synthesis are both inside synthesize_content, the stage "synthesize".
StageRank(stage) ==
    CASE stage = "idle" -> 0
      [] stage = "discover" -> 1
      [] stage = "extract" -> 2
      [] stage = "synthesize" -> 3
      [] stage = "report" -> 4
      [] stage = "done" -> 5
      [] OTHER -> 6

\* C17: for each requested artifact the run is a linear pipeline Discover,
\* Extract, Resolve, Synthesize, Report: every change of position goes to a
\* later stage of the same artifact, to another iteration of the reading
\* loop inside Extract, or to a later artifact; no stage is entered again
\* and no step leads back.  (A run that an exception ends has the position
\* "aborted" of the artifact it was at, after every stage.)
C17_LinearPipeline ==
    [][pc' # pc =>
          /\ \/ pc'.header > pc.header
             \/ /\ pc'.header = pc.header
                /\ StageRank(pc'.stage) > StageRank(pc.stage)
             \/ /\ pc'.header = pc.header
                /\ pc.stage = "extract" /\ pc'.stage = "extract"
                /\ pc'.next = pc.next + 1]_vars

\* The run is over and has taken both headers of the roots through every
\* stage.
C17_Witness ==
    /\ pc.stage = "done"
    /\ OutputPath(port_h) \in DOMAIN merged
    /\ OutputPath(message_h) \in DOMAIN merged
    /\ InMerged("", SYNTHESIS_REPORT_txt) \in DOMAIN merged

\* C18: join barrier: synthesize_content for an artifact does not begin
\* before the artifact has been read from every source that has it, so
\* resolution sees the complete source set of every symbol.
C18_JoinBarrier ==
    pc.stage = "synthesize" =>
        /\ DOMAIN contents_read = ReadableSources(headers[pc.header])
        /\ \A s \in DOMAIN contents_read :
              contents_read[s] = Find(s, headers[pc.header])[1].text
        /\ \A kind \in Kinds :
              LET all == AllSymbols(kind, contents_read)
                  declaring == {s \in ReadableSources(headers[pc.header]) :
                                   KindIn(s) = kind}
              IN  IF declaring = {} THEN DOMAIN all = {}
                  ELSE DOMAIN all = {<<65>>} /\ all[<<65>>] = declaring

\* synthesize_content is about to begin for a header that two sources have.
C18_Witness ==
    /\ pc.stage = "synthesize"
    /\ Cardinality(ReadableSources(headers[pc.header])) >= 2
    /\ Cardinality(DOMAIN contents_read) >= 2

\* C19: writing synthesized artifacts is single-writer-per-artifact-name:
\* two distinct artifact names never map to the same output path, and once
\* the synthesizer has written the artifact of a name, no write of any tool
\* changes that file.
C19_SingleWriterPerArtifact ==
    [][/\ \A i, j \in DOMAIN headers :
             i # j => OutputPath(headers[i]) # OutputPath(headers[j])
       /\ \A i \in DOMAIN headers :
             (pc.header > i /\ OutputPath(headers[i]) \in DOMAIN merged) =>
                 /\ OutputPath(headers[i]) \in DOMAIN merged'
                 /\ merged'[OutputPath(headers[i])]
                       = merged[OutputPath(headers[i])]]_vars

(***************************************************************************)
(* SpecTools: the operations that run an external indexer on a source      *)
(* root: OSAnalyzer.run_ctags (src/analyze.py) and                         *)
(* IPCMapper.build_call_graph (src/ipc_mapper.py).                         *)
(*                                                                         *)
(* A file under a source root is named by the directory of the root below  *)
(* base_path and its name in the root.  The roots hold no C source here:   *)
(* cscope finds no caller of any function.  Whether the indexer is         *)
(* installed and succeeds is the environment's choice.                     *)
(***************************************************************************)

\* self.systems of OSAnalyzer.__init__, lines 18-24.
OSAnalyzer_systems == <<"CMU-Mach-MK83", "OSF1", "Lites", "Mach4-i386", "GNU-OSFMach">>

\* The directory of the root a tool registers for a system: the values of
\* self.systems in analyze.py (lines 19-23) and ipc_mapper.py (lines 20-23).
RootDir(system) ==
    CASE system = "CMU-Mach-MK83" -> "CMU-Mach-MK83"
      [] system = "OSF1"          -> "OSF1-base/osf1src"
      [] system = "Lites"         -> "Lites-1.1/lites-1.1"
      [] system = "Mach4-i386"    -> "mach4-i386/mach4-i386"
      [] system = "GNU-OSFMach"   -> "gnu-osfmach/gnu-osfmach"

\* Bound: the number of lines of a tags file.
MaxTagLines == 1

RootFile(root, name, lines) == [root |-> root, name |-> name, lines |-> lines]

\* The files of that name under the root.
Existing(root, name) == {f \in created : f.root = root /\ f.name = name}

InitTools ==
    /\ interfaces = [x \in {} |-> NoSignatures]
    /\ result = NoResult
    /\ trees = <<>>
    /\ merged = <<>>
    /\ phase = "setup"
    /\ guards = <<>>
    /\ roots = <<>>
    /\ created = {}
    /\ results = <<>>
    /\ call_graphs = <<>>
    /\ pc = Idle
    /\ similar_paths = <<>>
    /\ contents_read = <<>>
    /\ readable_roots = SynthSystemSet
    /\ audit_tree = {}
    /\ audit = NoAudit

\* OSAnalyzer.run_ctags(system_name), lines 27-48: ctags is told to write
\* {path}/tags; when that file exists afterwards its lines are counted.
\* The tags of a root without C source name no function, struct or macro.
RunCtags(system_name) ==
    /\ \E ran \in BOOLEAN, lines \in 0..MaxTagLines :
          LET root == RootDir(system_name)
              files == IF ran
                       THEN (created \ Existing(root, "tags"))
                               \cup {RootFile(root, "tags", lines)}
                       ELSE created
              tags == {f \in files : f.root = root /\ f.name = "tags"}
          IN  /\ created' = files
              /\ results' =
                    IF tags = {} THEN results
                    ELSE [x \in (DOMAIN results) \cup {system_name} |->
                             IF x = system_name
                             THEN [total_symbols |-> (CHOOSE f \in tags : TRUE).lines,
                                   functions |-> 0, structs |-> 0, macros |-> 0]
                             ELSE results[x]]
    /\ UNCHANGED <<mapperVars, synthVars, runVars, guards, call_graphs, auditVars>>

\* IPCMapper.build_call_graph(system_name), lines 109-136: when the root
\* has no cscope.out, 'cd {path} && cscope -Rb' is run there; the graph gets
\* an edge per caller cscope prints, here none.
BuildCallGraph(system_name) ==
    /\ LET root == RootDir(system_name)
       IN  IF Existing(root, "cscope.out") # {}
           THEN created' = created
           ELSE \E ran \in BOOLEAN :
                   created' = IF ran
                              THEN created \cup {RootFile(root, "cscope.out", 0)}
                              ELSE created
    /\ call_graphs' = [x \in (DOMAIN call_graphs) \cup {system_name} |->
                          IF x = system_name THEN {} ELSE call_graphs[x]]
    /\ UNCHANGED <<mapperVars, synthVars, runVars, guards, results, auditVars>>

NextTools ==
    \/ \E system_name \in Range(OSAnalyzer_systems) : RunCtags(system_name)
    \/ \E system_name \in MapperSystemSet : BuildCallGraph(system_name)

SpecTools == InitTools /\ [][NextTools]_vars

\* C20: source trees are read-only for the duration of a run: no operation
\* of the analysis, mapping or synthesis tools creates, modifies or deletes
\* a file under a registered source root.
C20_SourceTreesReadOnly ==
    [][created' = created /\ roots' = roots]_vars

(***************************************************************************)
(* Claims about failures of the run, checked under SpecRun.                *)
(***************************************************************************)

\* The run is over: run_synthesis returned or an exception left it.
RunOver == pc.stage \in {"done", "aborted"}

\* C21: failures are isolated to the artifact or source they concern: when
\* the run is over, every requested artifact some source supplies readably,
\* other than the artifact whose own write failed, has been synthesized and
\* written.
C21_FailuresAreIsolated ==
    RunOver =>
        \A i \in DOMAIN headers :
            (/\ ReadableSources(headers[i]) # {}
             /\ ~(pc.stage = "aborted" /\ pc.header = i))
                => OutputPath(headers[i]) \in DOMAIN merged

\* C22: the run succeeds even when sources lack artifacts; it fails only
\* when no registered source root is readable at all (a
\* SynthesisInvariantViolation is raised nowhere), and in that case it does
\* fail: a run that returned had a readable root, and a run that an
\* exception ended during merge_headers had none.
C22_RunFailsOnlyWithoutReadableRoot ==
    /\ pc.stage = "done" => readable_roots # {}
    /\ (pc.stage = "aborted" /\ pc.header <= Len(headers)) => readable_roots = {}

\* The failures of the run: the pairs of a source and a requested artifact
\* for which the source root is unreadable, has no file of that name, or has
\* one that cannot be read.
Failures ==
    {f \in SynthSystemSet \X Range(headers) :
        Find(f[1], f[2]) = <<>> \/ ~Find(f[1], f[2])[1].readable}

\* The failures a text enumerates: for each entry its source id and its
\* artifact name.
FailuresListed(text) ==
    UNION {{<<s, text[i].name>> : s \in Range(text[i].systems)} :
              i \in {j \in DOMAIN text : text[j].t = "failure"}}

\* C23: the final report enumerates every failure that occurred during the
\* run, each with its source id and artifact name.
C23_ReportEnumeratesFailures ==
    (pc.stage = "done" /\ InMerged("", SYNTHESIS_REPORT_txt) \in DOMAIN merged) =>
        Failures \subseteq FailuresListed(merged[InMerged("", SYNTHESIS_REPORT_txt)])

\* C24: a failure to write the report is fatal for the reporting step only:
\* every file the merged tree held before the step that fails to write the
\* report is there unchanged after it.
C24_ReportFailureLeavesArtifacts ==
    [][(pc.stage = "report" /\ pc'.stage = "aborted") =>
          \A p \in DOMAIN merged :
              p \in DOMAIN merged' /\ merged'[p] = merged[p]]_vars

\* The report could not be written after port.h and message.h had been
\* synthesized: both are in the merged tree, the report is not.
C24_Witness ==
    /\ pc.stage = "aborted"
    /\ pc.header = Len(headers) + 1
    /\ OutputPath(port_h) \in DOMAIN merged
    /\ OutputPath(message_h) \in DOMAIN merged
    /\ InMerged("", Makefile) \in DOMAIN merged
    /\ InMerged("", SYNTHESIS_REPORT_txt) \notin DOMAIN merged

\* C29: HeaderFixer.run_fixes copies message.h and port.h only when the
\* merged tree does not already hold that header: no run_fixes changes a
\* message.h or port.h the merged tree holds, and a header it copied is
\* where the test of the next run_fixes looks for it, so that the next run
\* copies nothing.
C29_RunFixesCopiesOnlyMissing ==
    [][(pc' = pc /\ pc.stage \in {"idle", "done"} /\ roots' = roots
           /\ readable_roots' = readable_roots) =>
          \A name \in {message_h, port_h} :
              /\ \A p \in DOMAIN merged :
                    p.name = name => (p \in DOMAIN merged' /\ merged'[p] = merged[p])
              /\ (\E p \in (DOMAIN merged') \ (DOMAIN merged) : p.name = name)
                    => InMerged("include/mach", name) \in DOMAIN merged']_vars

(***************************************************************************)
(* Further claims about OSSynthesizer, checked under SpecSynth.            *)
(***************************************************************************)

\* The places of the matches in the output, chunk and piece, that are whole
\* lines.
WholeLines ==
    {p \in UNION {{<<i, j>> : j \in DOMAIN Output[i].text} : i \in DOMAIN Output} :
        Output[p[1]].t = "text" /\ Output[p[1]].text[p[2]].whole}

LineAt(p) == Output[p[1]].text[p[2]].line

\* C25: a symbol is flagged as contended, by a provenance comment right
\* before its body (for a type alias before the HAVE_ guard that opens its
\* body), if and only if more than one source defines it; a symbol of one
\* source gets no comment; the text after the comment comes from one source.
C25_ProvenanceIffContended ==
    Synthesized =>
        \A kind \in Kinds, name \in SymbolNames :
            /\ (ProvenanceOf(kind, name) # {}) <=> (Cardinality(SourcesOf(kind, name)) > 1)
            /\ \A i \in ProvenanceOf(kind, name) :
                  \E j \in (i + 1)..Len(Output) :
                      /\ Output[j].t = "text"
                      /\ \A k \in (i + 1)..(j - 1) :
                            Output[k].t \in {"ifndef HAVE_", "define HAVE_"}
                      /\ \E m \in DOMAIN Output[j].text :
                            /\ Output[j].text[m].whole
                            /\ Output[j].text[m].line.kind = kind
                            /\ Output[j].text[m].line.name = name
                      /\ \A m, n \in DOMAIN Output[j].text :
                            Output[j].text[m].line.body = Output[j].text[n].line.body

\* The section of the output a chunk is in: the kind of the last section
\* heading before it.
InSection(i, kind) ==
    /\ \E h \in 1..i : Output[h].t = "section" /\ Output[h].kind = kind
    /\ \A h \in 1..i : Output[h].t = "section" => SectionAt(kind) >= h

\* C26: within each of the Macro, TypeAlias and FunctionDecl sections of a
\* synthesized artifact the symbols are emitted in strictly ascending
\* alphabetical order of name: of two definitions of the section's kind, the
\* one emitted first has the smaller name.
C26_SectionsAscending ==
    (Synthesized /\ Output[1].t = "header") =>
        \A kind \in Kinds : \A p, q \in WholeLines :
            (/\ InSection(p[1], kind) /\ InSection(q[1], kind)
             /\ LineAt(p).kind = kind /\ LineAt(q).kind = kind
             /\ (p[1] < q[1] \/ (p[1] = q[1] /\ p[2] < q[2])))
                => LexLess(LineAt(p).name, LineAt(q).name)

\* C27: every artifact written by intelligent_merge is a guarded artifact,
\* whether one source supplies the file or several: an opening guard made
\* from the artifact name comes before every declaration, and the output
\* ends with the matching closing guard.
C27_EveryArtifactGuarded ==
    Synthesized =>
        /\ \E i \in DOMAIN Output :
              /\ Output[i].t = "ifndef" /\ Output[i].name = Guard(port_h)
              /\ \A p \in WholeLines : i < p[1]
        /\ Output[Len(Output)].t = "endif"
        /\ Output[Len(Output)].name = Guard(port_h)

\* C28: the definition line emitted for a macro named N is a line that
\* defines exactly N, never the line of a macro whose name begins with N.
C28_MacroLineDefinesItsName ==
    Synthesized =>
        \A i \in DOMAIN Output :
            (Output[i].t = "text" /\ Output[i].kind = "define") =>
                \A m \in DOMAIN Output[i].text :
                    /\ Output[i].text[m].line.kind = "define"
                    /\ Output[i].text[m].line.name = Output[i].name

(***************************************************************************)
(* SpecAudit: BuildAuditor.run_audit (src/build_auditor.py) on a merged    *)
(* tree.                                                                   *)
(*                                                                         *)
(* audit_tree holds the entries of the tree the audit looks at: the paths  *)
(* that exist below base_path, 'dir/*.c' standing for the .c files of a    *)
(* directory, and for the Makefile the variables it assigns with the       *)
(* wildcard line run_audit searches for.  An issue is the string appended  *)
(* to self.issues, kept as its severity label ("" when the string has      *)
(* none), its message and the path or variable it is about.                *)
(***************************************************************************)

\* The variables of patterns, lines 54-61, in dict order.
patterns == <<"IPC_SRCS", "VM_SRCS", "DEVICE_SRCS", "MACH_SRCS", "BSD_SRCS", "UNIX_SRCS">>

\* The keys of expected_dirs, lines 73-80, in dict order.
expected_dirs ==
    <<"kernel/ipc", "kernel/vm", "kernel/device", "kernel/mach", "servers/bsd", "servers/unix">>

\* The .c files of a directory: full_path.glob('*.c'), line 85.
CFiles(dir_path) ==
    CASE dir_path = "kernel/ipc" -> "kernel/ipc/*.c"
      [] dir_path = "kernel/vm" -> "kernel/vm/*.c"
      [] dir_path = "kernel/device" -> "kernel/device/*.c"
      [] dir_path = "kernel/mach" -> "kernel/mach/*.c"
      [] dir_path = "servers/bsd" -> "servers/bsd/*.c"
      [] dir_path = "servers/unix" -> "servers/unix/*.c"

\* expected_includes, lines 97-99.
expected_includes == <<"include", "include/mach", "include/sys", "include/kern", "include/ipc">>

\* The keys of critical_files, lines 114-120, in dict order.
critical_files ==
    <<"link.ld", "kernel/boot.S", "kernel/main.c", "include/mach/mach_types.h",
      "include/synthesis.h">>

\* Every entry a tree can hold.
AllEntries ==
    {"Makefile"} \cup Range(patterns) \cup Range(expected_dirs)
    \cup {CFiles(d) : d \in Range(expected_dirs)}
    \cup Range(expected_includes) \cup Range(critical_files)

\* The entries that go when an entry goes: the lines of the Makefile, the
\* files of a directory, what is below an include directory.
Below(entry) ==
    CASE entry = "Makefile" -> Range(patterns)
      [] entry \in Range(expected_dirs) -> {CFiles(entry)}
      [] entry = "include" ->
            {"include/mach", "include/sys", "include/kern", "include/ipc",
             "include/mach/mach_types.h", "include/synthesis.h"}
      [] entry = "include/mach" -> {"include/mach/mach_types.h"}
      [] OTHER -> {}

\* Bound: the number of entries missing from the tree before one more is
\* taken away.
MaxMissing == 2

Issue(label, message, subject) == [label |-> label, message |-> message, subject |-> subject]

\* 'CRITICAL' in i, line 205.
IsCritical(issue) == issue.label = "CRITICAL"

\* 'WARNING' in i, line 206.
IsWarning(issue) == issue.label = "WARNING"

\* The issues a loop over items appends: one for each item that fails its
\* check, in the order of the items; issue maps an item to the string
\* appended for it.
IssuesFor(items, failing, issue) ==
    LET kept == Filter(items, failing)
    IN  [i \in DOMAIN kept |-> issue[kept[i]]]

\* analyze_makefile, lines 42-67: what it appends to self.issues.
analyze_makefile(tree) ==
    IF "Makefile" \notin tree
    THEN <<Issue("CRITICAL", "Makefile not found", "Makefile")>>
    ELSE IssuesFor(patterns, Range(patterns) \ tree,
                   [var \in Range(patterns) |-> Issue("", "Missing pattern", var)])

\* check_directory_structure, lines 69-91.
check_directory_structure(tree) ==
    IssuesFor(expected_dirs,
              {d \in Range(expected_dirs) :
                  \/ d \notin tree
                  \/ CFiles(d) \notin tree /\ d \notin {"kernel/vm", "servers/unix"}},
              [dir_path \in Range(expected_dirs) |->
                  IF dir_path \in tree
                  THEN Issue("WARNING", "exists but has no .c files", dir_path)
                  ELSE Issue("CRITICAL", "Missing directory", dir_path)])

\* check_include_paths, lines 93-108.
check_include_paths(tree) ==
    IssuesFor(expected_includes, Range(expected_includes) \ tree,
              [inc_path \in Range(expected_includes) |->
                  Issue("", "Missing include directory", inc_path)])

\* check_missing_critical_files, lines 110-131.
check_missing_critical_files(tree) ==
    IssuesFor(critical_files, Range(critical_files) \ tree,
              [file_path \in Range(critical_files) |->
                  IF file_path \in {"link.ld", "kernel/main.c"}
                  THEN Issue("CRITICAL", "Missing", file_path)
                  ELSE Issue("WARNING", "Missing", file_path)])

\* suggest_fixes, lines 133-185: the actions of the fixes, by priority; an
\* issue names a path when its string contains it.
suggest_fixes(issues) ==
    LET named == {issues[i].subject : i \in DOMAIN issues}
    IN  Filter(<<"link.ld", "kernel/main.c", "kernel/boot.S", "kernel/vm", "servers/unix">>,
               named)

InitAudit ==
    /\ interfaces = [x \in {} |-> NoSignatures]
    /\ result = NoResult
    /\ trees = <<>>
    /\ merged = <<>>
    /\ phase = "setup"
    /\ guards = <<>>
    /\ roots = <<>>
    /\ created = {}
    /\ results = <<>>
    /\ call_graphs = <<>>
    /\ pc = Idle
    /\ similar_paths = <<>>
    /\ contents_read = <<>>
    /\ readable_roots = SynthSystemSet
    /\ audit_tree = AllEntries
    /\ audit = NoAudit

\* Before the audit: an entry, with what is below it, is not in the tree.
Remove(entry) ==
    /\ ~audit.ran
    /\ entry \in audit_tree
    /\ Cardinality(AllEntries \ audit_tree) < MaxMissing
    /\ audit_tree' = audit_tree \ ({entry} \cup Below(entry))
    /\ UNCHANGED <<audit, mapperVars, synthVars, runVars, toolVars>>

\* BuildAuditor(base_path).run_audit(), lines 187-220: the checks fill
\* self.issues, the issues with 'CRITICAL' and those with 'WARNING' are
\* printed under their headings, and (len(self.issues) == 0, fixes) is
\* returned.  scan_actual_files (lines 18-40) fills self.files_found, which
\* no later step reads.
RunAudit ==
    /\ ~audit.ran
    /\ LET issues == analyze_makefile(audit_tree)
                     \o check_directory_structure(audit_tree)
                     \o check_include_paths(audit_tree)
                     \o check_missing_critical_files(audit_tree)
       IN  audit' = [ran |-> TRUE,
                     issues |-> issues,
                     critical |-> SelectSeq(issues, IsCritical),
                     warnings |-> SelectSeq(issues, IsWarning),
                     fixes |-> suggest_fixes(issues),
                     can_build |-> Len(issues) = 0]
    /\ UNCHANGED <<audit_tree, mapperVars, synthVars, runVars, toolVars>>

NextAudit ==
    \/ \E entry \in AllEntries : Remove(entry)
    \/ RunAudit

SpecAudit == InitAudit /\ [][NextAudit]_vars

\* C30: in BuildAuditor.run_audit every issue recorded in self.issues is
\* listed in the ISSUES FOUND output under CRITICAL ISSUES or under WARNINGS,
\* so that whenever run_audit returns can_build = False at least one issue
\* has been shown.
C30_EveryIssueShown ==
    audit.ran =>
        /\ \A i \in DOMAIN audit.issues :
              audit.issues[i] \in Range(audit.critical) \cup Range(audit.warnings)
        /\ ~audit.can_build => (audit.critical # <<>> \/ audit.warnings # <<>>)

====
